---- MODULE Spec2Model ----
(***************************************************************************)
(* Model of the tournament engine embedded in ChampionshipDetail           *)
(* (src/src/App.js): group partition, round-robin schedule, standings      *)
(* recomputation, and the handlers that persist their results.             *)
(*                                                                         *)
(* The Firestore documents are the variables participants, config, groups, *)
(* standings (the championship document) and matches (the matches          *)
(* collection).  The snapshot listeners (App.js:100-119, 471-490) deliver  *)
(* a local write to the component before the next user event, so the       *)
(* component's `championship` prop and `matches` state are read from the   *)
(* same variables.  What an async handler captured at the click is kept in *)
(* its closure record (inflight) until the awaited write resolves.         *)
(***************************************************************************)
EXTENDS Integers, Sequences, FiniteSets, TLC

\* ------------------------------------------------------------------ bounds
MaxParticipants == 4       \* participants of a championship in SpecGroups: up to MaxParticipants
MaxInflight == 2           \* handleSaveScore invocations awaiting their updateMatch
MaxManual == 1             \* manual ("Avulso") matches created

\* JS null of homeSets/awaySets, as an integer no score field can produce
Null == -1000

\* ------------------------------------------------------ state of the program
VARIABLES
    participants,    \* championship.participantIds resolved by participantMap
    config,          \* championship.config
    groups,          \* championship.groups
    standings,       \* championship.standings
    matches,         \* the matches collection; a match's id is its index
    currentConfig,   \* useState(championship.config): the settings form
    isScoreModalOpen,\* useState(false): the score dialog is shown
    editingMatch,    \* useState(null): id of the match of the score dialog, 0 = null
    inflight,        \* closures of handleSaveScore awaiting updateMatch, oldest first
    alert            \* the message of alert() in the last handler run, "" when it raised none

vars == <<participants, config, groups, standings, matches, currentConfig,
          isScoreModalOpen, editingMatch, inflight, alert>>

champVars == <<participants, config, groups, standings>>
dialogVars == <<isScoreModalOpen, editingMatch>>

\* the texts of the three alert() calls of ChampionshipDetail, and no alert
NoAlert == ""

GroupsAlert == "E necessario ter ao menos 2 participantes e 1 grupo para gerar as chaves."

MatchesAlert == "Partidas da fase de grupos geradas!"

ManualMatchAlert == "Selecione dois participantes diferentes."

\* ------------------------------------------------------------- sequences
Range(s) == {s[i] : i \in 1..Len(s)}

\* all orderings of the elements of seq
Perms(seq) ==
    {p \in [1..Len(seq) -> Range(seq)] : \A x \in Range(seq) : \E i \in 1..Len(seq) : p[i] = x}

\* ------------------------------------------------------ parseInt(text, 10)
Digits == <<"0", "1", "2", "3", "4", "5", "6", "7", "8", "9">>

IsNumeral(text) == \E d \in 1..Len(Digits) : text = Digits[d]

\* parseInt on the texts a number field is filled with here: a digit, a digit
\* with a minus sign, or something that parses to NaN ("" and "abc")
ParseIntOr(text, default) ==
    LET n == IF IsNumeral(text)
                THEN (CHOOSE d \in 1..Len(Digits) : text = Digits[d]) - 1
             ELSE IF text = "-1" THEN -1
             ELSE 0                       \* NaN: falsy like 0
    IN  IF n = 0 THEN default ELSE n

\* ------------------------------------------------------- handleGenerateGroups
Letters == <<"Grupo A", "Grupo B", "Grupo C", "Grupo D", "Grupo E", "Grupo F",
             "Grupo G", "Grupo H", "Grupo I", "Grupo J">>

GroupName(i) == Letters[i + 1]

\* a chunked assignment in place of the striped one
ChunkIndex(index, numGroups) == (index \div numGroups) % numGroups

GroupIndex(index, numGroups) == index % numGroups

EmptyGroups(numGroups) ==
    [i \in 1..numGroups |-> [name |-> GroupName(i - 1), participantIds |-> <<>>]]

RECURSIVE Distribute(_, _, _, _)
Distribute(newGroups, shuffled, index, numGroups) ==
    IF index >= Len(shuffled) THEN newGroups
    ELSE LET g == GroupIndex(index, numGroups) + 1
         IN  Distribute(
                 [newGroups EXCEPT ![g].participantIds = Append(@, shuffled[index + 1])],
                 shuffled, index + 1, numGroups)

NewGroups(shuffled, numGroups) ==
    Distribute(EmptyGroups(numGroups), shuffled, 0, numGroups)

ZeroRow(pid) ==
    [participantId |-> pid, played |-> 0, wins |-> 0, losses |-> 0,
     setsFor |-> 0, setsAgainst |-> 0, setDifference |-> 0, points |-> 0]

InitialTable(participantIds) ==
    [i \in 1..Len(participantIds) |-> ZeroRow(participantIds[i])]

InitialStandings(newGroups) ==
    [i \in 1..Len(newGroups) |->
        [groupName |-> newGroups[i].name, table |-> InitialTable(newGroups[i].participantIds)]]

\* ------------------------------------------------------ handleGenerateMatches
MatchBase(groupName, homeId, awayId) ==
    [stage |-> "group", groupName |-> groupName,
     homeParticipantId |-> homeId, awayParticipantId |-> awayId,
     homeSets |-> Null, awaySets |-> Null, status |-> "pending"]

\* the return fixture forgotten
FirstLegOnly(batch, group, i, j, matchFormat) ==
    Append(batch, MatchBase(group.name, group.participantIds[i], group.participantIds[j]))

\* the return fixture emitted before the fixture of the pair
ReturnLegFirst(batch, group, i, j, matchFormat) ==
    LET homeId == group.participantIds[i]
        awayId == group.participantIds[j]
    IN  IF matchFormat = "home_and_away"
           THEN Append(Append(batch, MatchBase(group.name, awayId, homeId)),
                       MatchBase(group.name, homeId, awayId))
           ELSE Append(batch, MatchBase(group.name, awayId, homeId))

\* the body of the inner loop: the fixture of the pair (i, j), then its return fixture
PairMatches(batch, group, i, j, matchFormat) ==
    LET homeId == group.participantIds[i]
        awayId == group.participantIds[j]
        first == Append(batch, MatchBase(group.name, homeId, awayId))
    IN  IF matchFormat = "home_and_away"
           THEN Append(first, MatchBase(group.name, awayId, homeId))
           ELSE first

\* for (i ...) for (j = i + 1 ...), with 1-based i and j
RECURSIVE GroupLoop(_, _, _, _, _)
GroupLoop(batch, group, i, j, matchFormat) ==
    LET n == Len(group.participantIds)
    IN  IF i > n THEN batch
        ELSE IF j > n THEN GroupLoop(batch, group, i + 1, i + 2, matchFormat)
        ELSE GroupLoop(PairMatches(batch, group, i, j, matchFormat),
                       group, i, j + 1, matchFormat)

GroupFixtures(group, matchFormat) == GroupLoop(<<>>, group, 1, 2, matchFormat)

\* championship.groups.forEach(...)
RECURSIVE AllGroupFixtures(_, _, _)
AllGroupFixtures(gs, k, matchFormat) ==
    IF k > Len(gs) THEN <<>>
    ELSE GroupFixtures(gs[k], matchFormat) \o AllGroupFixtures(gs, k + 1, matchFormat)

\* ---------------------------------------------------- handleRecalculateStandings
\* standings.find(s => s.participantId === pid): index of the first such row, 0 = undefined
FindRow(table, pid) ==
    IF \E i \in 1..Len(table) : table[i].participantId = pid
       THEN CHOOSE i \in 1..Len(table) :
                /\ table[i].participantId = pid
                /\ \A k \in 1..(i - 1) : table[k].participantId # pid
       ELSE 0

WinPoints == 2

LossPoints == 1

\* no point for a lost match
CreditWinsOnly(row, own, other) ==
    LET base == [row EXCEPT !.played = @ + 1,
                            !.setsFor = @ + own,
                            !.setsAgainst = @ + other]
    IN  IF own > other
           THEN [base EXCEPT !.wins = @ + 1, !.points = @ + WinPoints]
           ELSE [base EXCEPT !.losses = @ + 1]

\* the sets of the two sides swapped
CreditSwapped(row, own, other) ==
    LET base == [row EXCEPT !.played = @ + 1,
                            !.setsFor = @ + other,
                            !.setsAgainst = @ + own]
    IN  IF own > other
           THEN [base EXCEPT !.wins = @ + 1, !.points = @ + WinPoints]
           ELSE [base EXCEPT !.losses = @ + 1, !.points = @ + LossPoints]

\* equal sets credited as a win
CreditDrawAsWin(row, own, other) ==
    LET base == [row EXCEPT !.played = @ + 1,
                            !.setsFor = @ + own,
                            !.setsAgainst = @ + other]
    IN  IF own >= other
           THEN [base EXCEPT !.wins = @ + 1, !.points = @ + WinPoints]
           ELSE [base EXCEPT !.losses = @ + 1, !.points = @ + LossPoints]

\* a lost match not counted as a loss
CreditLossUncounted(row, own, other) ==
    LET base == [row EXCEPT !.played = @ + 1,
                            !.setsFor = @ + own,
                            !.setsAgainst = @ + other]
    IN  IF own > other
           THEN [base EXCEPT !.wins = @ + 1, !.points = @ + WinPoints]
           ELSE [base EXCEPT !.points = @ + LossPoints]

\* one side of a completed match credited to its row
Credit(row, own, other) ==
    LET base == [row EXCEPT !.played = @ + 1,
                            !.setsFor = @ + own,
                            !.setsAgainst = @ + other]
    IN  IF own > other
           THEN [base EXCEPT !.wins = @ + 1, !.points = @ + WinPoints]
           ELSE [base EXCEPT !.losses = @ + 1, !.points = @ + LossPoints]

\* the body of groupMatches.forEach
ApplyMatch(table, match) ==
    LET h == FindRow(table, match.homeParticipantId)
        t1 == IF h # 0
                 THEN [table EXCEPT ![h] = Credit(@, match.homeSets, match.awaySets)]
                 ELSE table
        a == FindRow(t1, match.awayParticipantId)
    IN  IF a # 0
           THEN [t1 EXCEPT ![a] = Credit(@, match.awaySets, match.homeSets)]
           ELSE t1

\* every completed match, whatever its group name
IsCompletedMatch(m, groupName) == m.status = "completed"

\* updatedMatches.filter: the completed matches of the group name
IsGroupMatch(m, groupName) == m.groupName = groupName /\ m.status = "completed"

RECURSIVE FoldMatches(_, _, _, _)
FoldMatches(table, ms, k, groupName) ==
    IF k > Len(ms) THEN table
    ELSE FoldMatches(IF IsGroupMatch(ms[k], groupName) THEN ApplyMatch(table, ms[k]) ELSE table,
                     ms, k + 1, groupName)

\* the difference left as the fold found it
StaleSetDifference(row) == row.setDifference

SetDifference(row) == row.setsFor - row.setsAgainst

WithSetDifference(table) ==
    [i \in 1..Len(table) |-> [table[i] EXCEPT !.setDifference = SetDifference(table[i])]]

\* the comparator without its last key
CompareNoSetsFor(a, b) ==
    IF a.points # b.points THEN b.points - a.points
    ELSE IF a.setDifference # b.setDifference THEN b.setDifference - a.setDifference
    ELSE 0

\* the comparator with the participant id as a fourth key
CompareThenId(a, b) ==
    IF a.points # b.points THEN b.points - a.points
    ELSE IF a.setDifference # b.setDifference THEN b.setDifference - a.setDifference
    ELSE IF a.setsFor # b.setsFor THEN b.setsFor - a.setsFor
    ELSE b.participantId - a.participantId

\* the comparator of standings.sort: negative when a goes first
Compare(a, b) ==
    IF a.points # b.points THEN b.points - a.points
    ELSE IF a.setDifference # b.setDifference THEN b.setDifference - a.setDifference
    ELSE IF a.setsFor # b.setsFor THEN b.setsFor - a.setsFor
    ELSE 0

\* Array.prototype.sort is stable (ECMAScript 2019): an element goes before the
\* first already placed element it strictly precedes, after all it ties with
RECURSIVE InsertRow(_, _, _)
InsertRow(sorted, row, k) ==
    IF k > Len(sorted) THEN Append(sorted, row)
    ELSE IF Compare(row, sorted[k]) < 0
            THEN SubSeq(sorted, 1, k - 1) \o <<row>> \o SubSeq(sorted, k, Len(sorted))
    ELSE InsertRow(sorted, row, k + 1)

RECURSIVE SortFrom(_, _, _)
SortFrom(sorted, table, k) ==
    IF k > Len(table) THEN sorted
    ELSE SortFrom(InsertRow(sorted, table[k], 1), table, k + 1)

SortTable(table) == SortFrom(<<>>, table, 1)

\* champ.groups.find(g => g.name === groupName): index, 0 = undefined
FindGroup(gs, groupName) ==
    IF \E i \in 1..Len(gs) : gs[i].name = groupName
       THEN CHOOSE i \in 1..Len(gs) :
                /\ gs[i].name = groupName
                /\ \A k \in 1..(i - 1) : gs[k].name # groupName
       ELSE 0

\* lines 507-554: the ranked table of a group over a list of matches
GroupTable(group, updatedMatches) ==
    SortTable(WithSetDifference(
        FoldMatches(InitialTable(group.participantIds), updatedMatches, 1, group.name)))

\* champ.standings.filter(s => s.groupName !== groupName)
OtherStandings(sts, groupName) ==
    SelectSeq(sts, LAMBDA s : s.groupName # groupName)

\* lines 507-557: newStandings, for a group name that champ.groups holds
NewStandings(champ, updatedMatches, groupName) ==
    Append(OtherStandings(champ.standings, groupName),
           [groupName |-> groupName,
            table |-> GroupTable(champ.groups[FindGroup(champ.groups, groupName)],
                                 updatedMatches)])

\* ------------------------------------------------------------ the handlers
\* ChampionshipsManager.handleSave: the configuration of a new championship
InitialConfig ==
    [generated |-> FALSE, numGroups |-> 1, numAdvancing |-> 2,
     matchFormat |-> "single", sets |-> 3]

\* the settings form shows the numbers of championship.config as text
FormOf(cfg) ==
    [generated |-> cfg.generated,
     numGroups |-> Digits[cfg.numGroups + 1],
     numAdvancing |-> Digits[cfg.numAdvancing + 1],
     matchFormat |-> cfg.matchFormat,
     sets |-> Digits[cfg.sets + 1]]

\* the component mounted on a new championship of which n participants are still
\* in participantMap (line 466 drops the ids of deleted players and teams)
Mounted(n) ==
    /\ participants = [i \in 1..n |-> i]
    /\ config = InitialConfig
    /\ groups = <<>>
    /\ standings = <<>>
    /\ matches = <<>>
    /\ currentConfig = FormOf(InitialConfig)
    /\ isScoreModalOpen = FALSE
    /\ editingMatch = 0
    /\ inflight = <<>>
    /\ alert = NoAlert

MatchFormats == {"single", "home_and_away"}

\* configToSave of handleSaveConfig
ConfigToSave(form) ==
    [generated |-> form.generated,
     numGroups |-> ParseIntOr(form.numGroups, 1),
     numAdvancing |-> ParseIntOr(form.numAdvancing, 2),
     matchFormat |-> form.matchFormat,
     sets |-> ParseIntOr(form.sets, 3)]

\* the settings fields are edited (lines 804, 811), then "Salvar Configurações";
\* numGroupsTexts are the texts typed into "Número de Grupos"
SaveConfig(numGroupsTexts) ==
    \E text \in numGroupsTexts, format \in MatchFormats :
        /\ currentConfig' = [currentConfig EXCEPT !.numGroups = text, !.matchFormat = format]
        /\ config' = ConfigToSave(currentConfig')
        /\ alert' = NoAlert
        /\ UNCHANGED <<participants, groups, standings, matches, dialogVars, inflight>>

\* the check of the number of groups alone
RejectsNumGroupsOnly == config.numGroups < 1

\* lines 588-591: the alert, nothing written
GenerateGroupsRejected ==
    Len(participants) < 2 \/ config.numGroups < 1

\* "Gerar Grupos Aleatoriamente" is rendered while the groups are not generated (line 702)
HandleGenerateGroups ==
    /\ ~config.generated
    /\ IF GenerateGroupsRejected
          THEN /\ alert' = GroupsAlert
               /\ UNCHANGED <<config, groups, standings>>
          ELSE \E shuffled \in Perms(participants) :
                  /\ groups' = NewGroups(shuffled, config.numGroups)
                  /\ standings' = InitialStandings(groups')
                  /\ config' = [config EXCEPT !.generated = TRUE]
                  /\ alert' = NoAlert
    /\ UNCHANGED <<participants, matches, currentConfig, dialogVars, inflight>>

\* the button enabled also when matches exist
GenerateMatchesAgain ==
    /\ config.generated
    /\ matches' = matches \o AllGroupFixtures(groups, 1, config.matchFormat)
    /\ alert' = MatchesAlert
    /\ UNCHANGED <<champVars, currentConfig, dialogVars, inflight>>

\* "Gerar Partidas dos Grupos" is enabled by line 755
HandleGenerateMatches ==
    /\ config.generated
    /\ Len(matches) = 0
    /\ matches' = matches \o AllGroupFixtures(groups, 1, config.matchFormat)
    /\ alert' = MatchesAlert
    /\ UNCHANGED <<champVars, currentConfig, dialogVars, inflight>>

ManualMatches == {i \in 1..Len(matches) : matches[i].groupName = "Avulso"}

\* the manual match created whatever the two selects hold
SaveManualMatchUnchecked ==
    \E homeParticipantId, awayParticipantId \in {0} \cup Range(participants) :
        /\ Cardinality(ManualMatches) < MaxManual
        /\ matches' = Append(matches,
                  MatchBase("Avulso", homeParticipantId, awayParticipantId))
        /\ alert' = NoAlert
        /\ UNCHANGED <<champVars, currentConfig, dialogVars, inflight>>

\* the two selects of the manual match dialog: "" (0 here) or a participant
HandleSaveManualMatch ==
    \E homeParticipantId, awayParticipantId \in {0} \cup Range(participants) :
        /\ Cardinality(ManualMatches) < MaxManual
        /\ IF homeParticipantId = 0 \/ awayParticipantId = 0
              \/ homeParticipantId = awayParticipantId
              THEN /\ alert' = ManualMatchAlert
                   /\ UNCHANGED matches
              ELSE /\ matches' = Append(matches,
                          MatchBase("Avulso", homeParticipantId, awayParticipantId))
                   /\ alert' = NoAlert
        /\ UNCHANGED <<champVars, currentConfig, dialogVars, inflight>>

\* "Lançar Placar" is rendered for a pending match (line 776), under no open dialog
OpenScoreModal ==
    \E m \in 1..Len(matches) :
        /\ ~isScoreModalOpen
        /\ matches[m].status = "pending"
        /\ editingMatch' = m
        /\ isScoreModalOpen' = TRUE
        /\ UNCHANGED <<champVars, matches, currentConfig, inflight, alert>>

\* "Cancelar" or the X of the score dialog
CloseScoreModal ==
    /\ isScoreModalOpen
    /\ isScoreModalOpen' = FALSE
    /\ UNCHANGED <<champVars, matches, currentConfig, editingMatch, inflight, alert>>

UpdatedMatchData(homeText, awayText) ==
    [homeSets |-> ParseIntOr(homeText, 0), awaySets |-> ParseIntOr(awayText, 0),
     status |-> "completed"]

\* the scores merged without the status
MergedScores(m, data) ==
    [m EXCEPT !.homeSets = data.homeSets, !.awaySets = data.awaySets]

\* {...m, ...updatedMatchData}
Merged(m, data) ==
    [m EXCEPT !.homeSets = data.homeSets, !.awaySets = data.awaySets,
              !.status = data.status]

\* handleSaveScore up to its await: updateMatch is issued, the closure waits;
\* scoreTexts are the texts typed into the two score fields, maxInflight the
\* invocations that may wait at once
SaveScore(scoreTexts, maxInflight) ==
    \E homeText, awayText \in scoreTexts :
        /\ isScoreModalOpen
        /\ editingMatch # 0
        /\ Len(inflight) < maxInflight
        /\ LET data == UpdatedMatchData(homeText, awayText)
           IN  /\ matches' = [matches EXCEPT ![editingMatch] = Merged(@, data)]
               /\ inflight' = Append(inflight,
                      [editingMatch |-> editingMatch,
                       data |-> data,
                       matches |-> matches,
                       championship |-> [groups |-> groups, standings |-> standings]])
        /\ alert' = NoAlert
        /\ UNCHANGED <<champVars, currentConfig, dialogVars>>

\* the matches of the closure without the score being saved
StaleMatches(closure) == closure.matches

\* matches.map(m => m.id === editingMatch.id ? {...m, ...updatedMatchData} : m)
UpdatedMatches(closure) ==
    [i \in 1..Len(closure.matches) |->
        IF i = closure.editingMatch THEN Merged(closure.matches[i], closure.data)
        ELSE closure.matches[i]]

\* the closure's call of handleRecalculateStandings reaches its write (lines 579, 505)
Recalculates(closure) ==
    LET editing == closure.matches[closure.editingMatch]
    IN  /\ editing.stage = "group"
        /\ FindGroup(closure.championship.groups, editing.groupName) # 0

\* handleSaveScore after its await, with handleRecalculateStandings up to its write
ResumeSaveScore ==
    /\ inflight # <<>>
    /\ LET closure == Head(inflight)
       IN  IF Recalculates(closure)
              THEN standings' = NewStandings(closure.championship, UpdatedMatches(closure),
                                   closure.matches[closure.editingMatch].groupName)
              ELSE UNCHANGED standings
    /\ inflight' = Tail(inflight)
    /\ isScoreModalOpen' = FALSE
    /\ editingMatch' = 0
    /\ alert' = NoAlert
    /\ UNCHANGED <<participants, config, groups, matches, currentConfig>>

\* ------------------------------------------------- SpecGroups: the partition
\* A new championship with 1..MaxParticipants participants left: the settings are saved
\* and the groups generated (again, when a saved form has reset the flag).
NumGroupsTexts == {"", "-1"} \cup {Digits[k + 1] : k \in 1..MaxParticipants}

HandleSaveConfig == SaveConfig(NumGroupsTexts)

InitGroups == \E n \in 1..MaxParticipants : Mounted(n)

NextGroups ==
    \/ HandleSaveConfig
    \/ HandleGenerateGroups

SpecGroups == InitGroups /\ [][NextGroups]_vars

\* the state handleGenerateGroups leaves: n participants shuffled into numGroups
\* groups, after the settings were saved with this number of groups and format
Generated(n, numGroups, matchFormat, shuffled) ==
    /\ participants = [i \in 1..n |-> i]
    /\ currentConfig = [FormOf(InitialConfig) EXCEPT !.numGroups = Digits[numGroups + 1],
                                                      !.matchFormat = matchFormat]
    /\ config = [ConfigToSave(currentConfig) EXCEPT !.generated = TRUE]
    /\ groups = NewGroups(shuffled, numGroups)
    /\ standings = InitialStandings(groups)
    /\ matches = <<>>
    /\ isScoreModalOpen = FALSE
    /\ editingMatch = 0
    /\ inflight = <<>>
    /\ alert = NoAlert

\* ------------------------------------------------- SpecMatches: the schedule
\* From any generated partition: the group matches are generated, manual ones created.
InitMatches ==
    \E n \in 2..MaxParticipants :
        \E numGroups \in 1..(n + 1), matchFormat \in MatchFormats,
           shuffled \in Perms([i \in 1..n |-> i]) :
            Generated(n, numGroups, matchFormat, shuffled)

NextMatches ==
    \/ HandleGenerateMatches
    \/ HandleSaveManualMatch

SpecMatches == InitMatches /\ [][NextMatches]_vars

\* ------------------------------------------------- SpecStandings: the results
\* Three participants shuffled into one group, single format: the matches are
\* generated and their scores saved one save at a time (a save waits for its
\* updateMatch before the next is made; SpecOverlap has the saves that overlap).
ScoreTexts == {"", "0", "1", "2", "3"}

HandleSaveScore == SaveScore(ScoreTexts, 1)

InitStandings ==
    \E shuffled \in Perms(<<1, 2, 3>>) : Generated(3, 1, "single", shuffled)

NextStandings ==
    \/ HandleGenerateMatches
    \/ OpenScoreModal
    \/ CloseScoreModal
    \/ HandleSaveScore
    \/ ResumeSaveScore

SpecStandings == InitStandings /\ [][NextStandings]_vars

\* ------------------------------------------------- SpecOverlap: saves that overlap
\* Four participants in two groups of two, single format, the two group matches
\* generated and a manual match between the members of the first group created:
\* scores are saved, up to MaxInflight saves waiting at once.
OverlapTexts == {"", "1"}

SaveScoreOverlapping == SaveScore(OverlapTexts, MaxInflight)

InitOverlap ==
    /\ participants = <<1, 2, 3, 4>>
    /\ currentConfig = [FormOf(InitialConfig) EXCEPT !.numGroups = "2"]
    /\ config = [ConfigToSave(currentConfig) EXCEPT !.generated = TRUE]
    /\ groups = NewGroups(participants, 2)
    /\ standings = InitialStandings(groups)
    /\ matches = Append(AllGroupFixtures(groups, 1, config.matchFormat),
                        MatchBase("Avulso", 1, 3))
    /\ isScoreModalOpen = FALSE
    /\ editingMatch = 0
    /\ inflight = <<>>
    /\ alert = NoAlert

NextOverlap ==
    \/ OpenScoreModal
    \/ CloseScoreModal
    \/ SaveScoreOverlapping
    \/ ResumeSaveScore

SpecOverlap == InitOverlap /\ [][NextOverlap]_vars

\* ------------------------------------------- SpecRegenerate: the form saved again
\* Three participants in two groups, single format, the group match generated:
\* its score is saved while the settings form (whose generated flag is the one of
\* the mount, line 455) is saved again and the groups are generated again.
RegenerateTexts == {"2", "3"}

SaveConfigAgain == SaveConfig(RegenerateTexts)

SaveScoreAlone == SaveScore(OverlapTexts, 1)

InitRegenerate ==
    /\ participants = <<1, 2, 3>>
    /\ currentConfig = [FormOf(InitialConfig) EXCEPT !.numGroups = "2"]
    /\ config = [ConfigToSave(currentConfig) EXCEPT !.generated = TRUE]
    /\ groups = NewGroups(participants, 2)
    /\ standings = InitialStandings(groups)
    /\ matches = AllGroupFixtures(groups, 1, config.matchFormat)
    /\ isScoreModalOpen = FALSE
    /\ editingMatch = 0
    /\ inflight = <<>>
    /\ alert = NoAlert

NextRegenerate ==
    \/ SaveConfigAgain
    \/ HandleGenerateGroups
    \/ OpenScoreModal
    \/ CloseScoreModal
    \/ SaveScoreAlone
    \/ ResumeSaveScore

SpecRegenerate == InitRegenerate /\ [][NextRegenerate]_vars

\* ===================================================================== claims
Members(group) == Range(group.participantIds)

Floor(n, g) == n \div g

Ceil(n, g) == (n + g - 1) \div g

\* the step of handleGenerateGroups that writes the groups
GroupsWritten == ~config.generated /\ config'.generated

BalancedPartition(gs, n, g) ==
    /\ Len(gs) = g
    /\ \A i \in 1..Len(gs) :
          /\ Len(gs[i].participantIds) \in {Floor(n, g), Ceil(n, g)}
          /\ Cardinality(Members(gs[i])) = Len(gs[i].participantIds)
    /\ \A i, k \in 1..Len(gs) : i # k => Members(gs[i]) \cap Members(gs[k]) = {}
    /\ UNION {Members(gs[i]) : i \in 1..Len(gs)} = Range(participants)

\* C1: whatever the shuffle, handleGenerateGroups on n >= 2 participants and
\* numGroups = g >= 1 writes exactly g groups, each of size floor(n/g) or
\* ceil(n/g), pairwise disjoint, no participant twice in a group, and together
\* exactly the participants.
C1_BalancedPartition ==
    [][GroupsWritten =>
          /\ Len(participants) >= 2 /\ config.numGroups >= 1
          /\ BalancedPartition(groups', Len(participants), config.numGroups)]_vars

\* four participants in three groups: sizes 2, 1, 1
C1_Witness ==
    /\ config.generated
    /\ Len(participants) = 4
    /\ Len(groups) = 3
    /\ Len(groups[1].participantIds) = 2
    /\ Len(groups[2].participantIds) = 1
    /\ Len(groups[3].participantIds) = 1

\* the fixtures of a group in a list of matches
FixturesOf(ms, group) == {k \in 1..Len(ms) : ms[k].groupName = group.name}

HasPair(m, home, away) == m.homeParticipantId = home /\ m.awayParticipantId = away

\* the schedule of one group under a format
CompleteSchedule(ms, group, matchFormat) ==
    LET ids == group.participantIds
        n == Len(ids)
        F == FixturesOf(ms, group)
    IN  /\ \A k \in F : ms[k].homeParticipantId # ms[k].awayParticipantId
        /\ IF matchFormat = "home_and_away"
              THEN /\ Cardinality(F) = n * (n - 1)
                   /\ \A a, b \in 1..n : a # b =>
                         Cardinality({k \in F : HasPair(ms[k], ids[a], ids[b])}) = 1
              ELSE /\ 2 * Cardinality(F) = n * (n - 1)
                   /\ \A a, b \in 1..n : a < b =>
                         Cardinality({k \in F : \/ HasPair(ms[k], ids[a], ids[b])
                                                 \/ HasPair(ms[k], ids[b], ids[a])}) = 1

\* the step of handleGenerateMatches (of an empty collection, line 755)
MatchesGenerated ==
    /\ config.generated
    /\ matches = <<>>
    /\ alert' = MatchesAlert

\* C2: one run of handleGenerateMatches emits, for every group of size n (0 and 1
\* included), n(n-1)/2 fixtures with each unordered pair once under "single" and
\* n(n-1) fixtures with each ordered pair once under "home_and_away", and no
\* fixture of a participant against itself.
C2_CompleteSchedule ==
    [][MatchesGenerated =>
          \A g \in 1..Len(groups) :
              CompleteSchedule(matches', groups[g], config.matchFormat)]_vars

\* four participants in three groups (sizes 2, 1, 1), home and away: two fixtures
C2_Witness ==
    /\ config.matchFormat = "home_and_away"
    /\ Len(groups) = 3
    /\ Len(groups[1].participantIds) = 2
    /\ Len(groups[2].participantIds) = 1
    /\ Len(matches) = 2
    /\ matches[1].groupName = "Grupo A"
    /\ matches[2].groupName = "Grupo A"

\* the persisted table of a group name, <<>> when there is none
TableOf(sts, groupName) ==
    IF \E i \in 1..Len(sts) : sts[i].groupName = groupName
       THEN sts[CHOOSE i \in 1..Len(sts) :
                   /\ sts[i].groupName = groupName
                   /\ \A k \in 1..(i - 1) : sts[k].groupName # groupName].table
       ELSE <<>>

\* the step of handleSaveScore after its await
Resumed == inflight # <<>> /\ inflight' = Tail(inflight)

\* the step in which the oldest waiting save writes the table of its match's group
Recomputed == Resumed /\ Recalculates(Head(inflight))

\* the match the oldest waiting save completes
SavedMatch == UpdatedMatches(Head(inflight))[Head(inflight).editingMatch]

\* what the row of pid gains between two tables, for a side with own and other sets
SideCredited(old, new, pid, own, other) ==
    FindRow(old, pid) # 0 =>
        /\ FindRow(new, pid) # 0
        /\ LET r == old[FindRow(old, pid)]
               q == new[FindRow(new, pid)]
           IN  /\ q.played = r.played + 1
               /\ q.wins + q.losses = r.wins + r.losses + 1
               /\ own > other => q.points = r.points + 2 /\ q.wins = r.wins + 1
               /\ other > own => q.points = r.points + 1 /\ q.losses = r.losses + 1

\* C3: when a completed group fixture is folded into the table of its group, the
\* row of each of its two participants gains 1 in played and 1 in wins + losses;
\* the winner's row (more sets) gains 2 points and 1 win, the loser's row 1 point
\* and 1 loss.
C3_PointsLaw ==
    [][Recomputed =>
          LET m == SavedMatch
              old == TableOf(standings, m.groupName)
              new == TableOf(standings', m.groupName)
          IN  /\ SideCredited(old, new, m.homeParticipantId, m.homeSets, m.awaySets)
              /\ SideCredited(old, new, m.awayParticipantId, m.awaySets, m.homeSets)]_vars

\* a table with a row that won once and lost once and a row that only lost
C3_Witness ==
    /\ inflight = <<>>
    /\ standings # <<>>
    /\ \E i, k \in 1..Len(standings[1].table) :
          LET r == standings[1].table[i]
              q == standings[1].table[k]
          IN  /\ r.played = 2 /\ r.wins = 1 /\ r.losses = 1 /\ r.points = 3
              /\ q.played = 1 /\ q.wins = 0 /\ q.losses = 1 /\ q.points = 1

\* r is ranked before s by the key (points, setDifference, setsFor)
RankedBefore(r, s) ==
    \/ r.points > s.points
    \/ r.points = s.points /\ r.setDifference > s.setDifference
    \/ r.points = s.points /\ r.setDifference = s.setDifference /\ r.setsFor >= s.setsFor

\* C4: every persisted table is in descending order of points, then
\* setDifference, then setsFor.
C4_RankedDescending ==
    \A e \in 1..Len(standings) :
        \A i, k \in 1..Len(standings[e].table) :
            i < k => RankedBefore(standings[e].table[i], standings[e].table[k])

\* the third member of the group is ranked first on setsFor alone
C4_Witness ==
    /\ standings # <<>>
    /\ Len(standings[1].table) = 3
    /\ LET t == standings[1].table
       IN  /\ t[1].participantId = groups[1].participantIds[3]
           /\ t[1].points = t[2].points
           /\ t[1].setDifference = t[2].setDifference
           /\ t[1].setsFor > t[2].setsFor

SameKey(r, s) ==
    r.points = s.points /\ r.setDifference = s.setDifference /\ r.setsFor = s.setsFor

\* the place of pid in a sequence of ids, 0 when it is not there
Place(ids, pid) ==
    IF \E i \in 1..Len(ids) : ids[i] = pid
       THEN CHOOSE i \in 1..Len(ids) : ids[i] = pid
       ELSE 0

\* C5: two rows of a persisted table with equal points, setDifference and
\* setsFor are in the order of their participants in the group's participantIds.
C5_TiesKeepGroupOrder ==
    \A e \in 1..Len(standings) :
        LET t == standings[e].table
            g == FindGroup(groups, standings[e].groupName)
        IN  g # 0 =>
            \A i, k \in 1..Len(t) :
                (i < k /\ SameKey(t[i], t[k])) =>
                    Place(groups[g].participantIds, t[i].participantId)
                        < Place(groups[g].participantIds, t[k].participantId)

\* the third member leads, the first two are tied after a match each
C5_Witness ==
    /\ standings # <<>>
    /\ Len(standings[1].table) = 3
    /\ LET t == standings[1].table
       IN  /\ t[1].participantId = groups[1].participantIds[3]
           /\ t[2].participantId = groups[1].participantIds[1]
           /\ t[3].participantId = groups[1].participantIds[2]
           /\ SameKey(t[2], t[3])
           /\ t[2].played > 0
           /\ groups[1].participantIds[1] < groups[1].participantIds[2]

\* C6: every row of every persisted table, the all-zero tables of
\* handleGenerateGroups included, has setDifference = setsFor - setsAgainst.
C6_SetDifference ==
    \A e \in 1..Len(standings) :
        \A i \in 1..Len(standings[e].table) :
            LET r == standings[e].table[i]
            IN  r.setDifference = r.setsFor - r.setsAgainst

\* a row with a negative and a row with a positive difference
C6_Witness ==
    /\ standings # <<>>
    /\ \E i, k \in 1..Len(standings[1].table) :
          /\ standings[1].table[i].setDifference < 0
          /\ standings[1].table[k].setDifference > 0
          /\ standings[1].table[k].setsAgainst > 0

\* a row of a table
Row(pid, played, wins, losses, setsFor, setsAgainst, setDifference, points) ==
    [participantId |-> pid, played |-> played, wins |-> wins, losses |-> losses,
     setsFor |-> setsFor, setsAgainst |-> setsAgainst,
     setDifference |-> setDifference, points |-> points]

Scored(m, homeSets, awaySets) ==
    m.status = "completed" /\ m.homeSets = homeSets /\ m.awaySets = awaySets

\* group {A,B,C}, single format: A beat B 3-1, C beat A 3-2, B beat C 3-0, and
\* the three recomputations are done
ScenarioPlayed ==
    /\ inflight = <<>>
    /\ Len(groups) = 1 /\ Len(groups[1].participantIds) = 3
    /\ config.matchFormat = "single"
    /\ Len(matches) = 3
    /\ Scored(matches[1], 3, 1)
    /\ Scored(matches[2], 2, 3)
    /\ Scored(matches[3], 3, 0)

PlayerA == groups[1].participantIds[1]

PlayerB == groups[1].participantIds[2]

PlayerC == groups[1].participantIds[3]

\* C7 as stated: B has setsAgainst 4 and setDifference 0, and the tie on points
\* is broken by setDifference 1 > 0 > -2.
C7_Stated ==
    ScenarioPlayed =>
        TableOf(standings, groups[1].name) =
            << Row(PlayerA, 2, 1, 1, 5, 4, 1, 3),
               Row(PlayerB, 2, 1, 1, 4, 4, 0, 3),
               Row(PlayerC, 2, 1, 1, 3, 5, -2, 3) >>

\* C7: after A beat B 3-1, C beat A 3-2 and B beat C 3-0 in group {A,B,C}, the
\* table is A: 2 played, 1 win, 1 loss, sets 5-4, difference +1, 3 points;
\* B: 2 played, 1 win, 1 loss, sets 4-3, difference +1, 3 points; C: 2 played,
\* 1 win, 1 loss, sets 3-5, difference -2, 3 points; in the order A, B, C: A and B
\* are tied on points and setDifference, and A is first on setsFor 5 > 4.
C7_Scenario ==
    ScenarioPlayed =>
        TableOf(standings, groups[1].name) =
            << Row(PlayerA, 2, 1, 1, 5, 4, 1, 3),
               Row(PlayerB, 2, 1, 1, 4, 3, 1, 3),
               Row(PlayerC, 2, 1, 1, 3, 5, -2, 3) >>

\* the scenario played by a group that the shuffle ordered 2, 3, 1
C7_Witness ==
    /\ ScenarioPlayed
    /\ groups[1].participantIds = <<2, 3, 1>>
    /\ Len(standings) = 1
    /\ Len(standings[1].table) = 3
    /\ standings[1].table[1].participantId = 2

\* a completed match of the group name
Counts(m, groupName) == m.groupName = groupName /\ m.status = "completed"

\* the sets of pid (own sets when own, the opponents' otherwise) over the first k
\* matches, counting the completed matches of the group name
RECURSIVE Tally(_, _, _, _, _)
Tally(ms, k, groupName, pid, own) ==
    IF k = 0 THEN 0
    ELSE Tally(ms, k - 1, groupName, pid, own)
         + (IF Counts(ms[k], groupName) /\ ms[k].homeParticipantId = pid
               THEN (IF own THEN ms[k].homeSets ELSE ms[k].awaySets) ELSE 0)
         + (IF Counts(ms[k], groupName) /\ ms[k].awayParticipantId = pid
               THEN (IF own THEN ms[k].awaySets ELSE ms[k].homeSets) ELSE 0)

\* the row of pid that the completed matches of the group name amount to
ExpectedRow(ms, groupName, pid) ==
    LET home == {i \in 1..Len(ms) :
                    Counts(ms[i], groupName) /\ ms[i].homeParticipantId = pid}
        away == {i \in 1..Len(ms) :
                    Counts(ms[i], groupName) /\ ms[i].awayParticipantId = pid}
        played == Cardinality(home) + Cardinality(away)
        wins == Cardinality({i \in home : ms[i].homeSets > ms[i].awaySets})
                + Cardinality({i \in away : ms[i].awaySets > ms[i].homeSets})
        setsFor == Tally(ms, Len(ms), groupName, pid, TRUE)
        setsAgainst == Tally(ms, Len(ms), groupName, pid, FALSE)
    IN  Row(pid, played, wins, played - wins, setsFor, setsAgainst,
            setsFor - setsAgainst, 2 * wins + (played - wins))

\* the only waiting save resumes and writes the table of its match's group
RecomputedAlone == Recomputed /\ Len(inflight) = 1

\* C8: when a save of a group match finishes with no other save waiting, the
\* persisted table of the match's group has one row per member of the group, and
\* each row is what the completed matches with the group's name amount to;
\* pending matches and matches of another group name (ad-hoc ones included)
\* count for nothing.
C8_TableIsFoldOfGroup ==
    [][RecomputedAlone =>
          LET name == SavedMatch.groupName
              group == groups[FindGroup(groups, name)]
              new == TableOf(standings', name)
          IN  /\ Len(new) = Len(group.participantIds)
              /\ \A pid \in Members(group) :
                    /\ FindRow(new, pid) # 0
                    /\ new[FindRow(new, pid)] = ExpectedRow(matches', name, pid)]_vars

\* the manual match of two members of the first group was completed, then the
\* group's own match; the second group's match is pending
C8_Witness ==
    /\ inflight = <<>>
    /\ matches[3].groupName = "Avulso" /\ Scored(matches[3], 1, 0)
    /\ matches[1].groupName = groups[1].name /\ Scored(matches[1], 0, 1)
    /\ matches[2].status = "pending"
    /\ LET t == TableOf(standings, groups[1].name)
       IN  /\ Len(t) = 2
           /\ t[1].participantId = matches[1].awayParticipantId
           /\ t[1].played = 1 /\ t[1].points = 2 /\ t[1].setsFor = 1

\* the oldest waiting save saves again the score its match already has
SavesNothingNew ==
    LET closure == Head(inflight)
    IN  closure.matches[closure.editingMatch]
            = Merged(closure.matches[closure.editingMatch], closure.data)

\* C9: a recomputation with no newly completed match (the save repeats the score
\* of a match that is already completed) leaves the persisted table of the
\* group as it is.
C9_RecomputeIdempotent ==
    [][(Recomputed /\ SavesNothingNew) =>
          TableOf(standings', SavedMatch.groupName)
              = TableOf(standings, SavedMatch.groupName)]_vars

\* the table holds the completed match and a second save of the same score waits
C9_Witness ==
    /\ Len(inflight) = 1
    /\ SavesNothingNew
    /\ Recalculates(Head(inflight))
    /\ Head(inflight).data.homeSets = 1
    /\ \E i \in 1..Len(TableOf(standings, SavedMatch.groupName)) :
          TableOf(standings, SavedMatch.groupName)[i].wins = 1

\* C10 as stated: a recomputation for group G leaves the persisted table of
\* every other group, the groups and the matches as they are.
C10_OnlyOwnTable ==
    [][Recomputed =>
          /\ groups' = groups
          /\ matches' = matches
          /\ \A h \in 1..Len(groups) :
                groups[h].name # SavedMatch.groupName =>
                    TableOf(standings', groups[h].name)
                        = TableOf(standings, groups[h].name)]_vars

\* the entries of the persisted standings with a group name
EntriesOf(sts, groupName) == {e \in 1..Len(sts) : sts[e].groupName = groupName}

\* the participant ids of the rows of a table
RowIds(table) == {table[i].participantId : i \in 1..Len(table)}

\* one table per group, one row per member
OneTablePerGroup(gs, sts) ==
    /\ \A g \in 1..Len(gs) :
          /\ Cardinality(EntriesOf(sts, gs[g].name)) = 1
          /\ LET table == TableOf(sts, gs[g].name)
             IN  /\ Len(table) = Len(gs[g].participantIds)
                 /\ RowIds(table) = Members(gs[g])
    /\ \A e \in 1..Len(sts) : \E g \in 1..Len(gs) : gs[g].name = sts[e].groupName

\* C11 as stated: once the groups are generated, the persisted standings hold
\* exactly one table per group name and no other table, and each table holds
\* exactly one row per member of its group and no other row.
C11_OneTablePerGroup ==
    groups # <<>> => OneTablePerGroup(groups, standings)

\* handleGenerateGroups cannot generate: too few participants or groups
CannotGenerate == Len(participants) < 2 \/ config.numGroups < 1

\* C12: with numGroups < 1 or fewer than 2 participants no step changes the
\* groups, the standings or the generated flag, and the alert of
\* handleGenerateGroups is raised only by such a step: one taken with
\* numGroups < 1 or fewer than 2 participants that leaves the three unchanged.
C12_GenerationRejected ==
    [][/\ CannotGenerate =>
             /\ groups' = groups
             /\ standings' = standings
             /\ config'.generated = config.generated
       /\ (alert' = GroupsAlert /\ alert # GroupsAlert) =>
             /\ CannotGenerate
             /\ UNCHANGED <<groups, standings, config>>]_vars

\* generation was rejected for numGroups = -1, after a first generation whose
\* groups and tables are still there
C12_Witness ==
    /\ alert = GroupsAlert
    /\ config.numGroups = -1
    /\ ~config.generated
    /\ Len(groups) = 2
    /\ Len(standings) = 2

\* a pending ad-hoc fixture with both scores unset
AdHocFixture(homeId, awayId) ==
    [stage |-> "group", groupName |-> "Avulso",
     homeParticipantId |-> homeId, awayParticipantId |-> awayId,
     homeSets |-> Null, awaySets |-> Null, status |-> "pending"]

\* C13: a step that raises the alert of the manual match dialog adds no fixture,
\* and a step that changes the fixtures outside handleGenerateMatches adds
\* exactly one fixture: pending, both scores unset, named "Avulso", between two
\* different participants of the championship; so no fixture is ever added for
\* equal sides or for a side that is no participant.
C13_AdHocFixture ==
    [][/\ (alert' = ManualMatchAlert /\ alert # ManualMatchAlert) => matches' = matches
       /\ (matches' # matches /\ alert' # MatchesAlert) =>
             \E homeId, awayId \in Range(participants) :
                 /\ homeId # awayId
                 /\ matches' = Append(matches, AdHocFixture(homeId, awayId))]_vars

\* an ad-hoc fixture was added after the fixtures of the groups
C13_Witness ==
    /\ alert = NoAlert
    /\ Len(matches) >= 2
    /\ matches[1].groupName = "Grupo A"
    /\ matches[Len(matches)] = AdHocFixture(2, 1)

\* the oldest waiting save resumes and calls handleRecalculateStandings with a
\* group name that the groups of its championship do not hold
RecomputedUnknownGroup ==
    /\ Resumed
    /\ Head(inflight).matches[Head(inflight).editingMatch].stage = "group"
    /\ ~Recalculates(Head(inflight))

\* C14 as stated: a recomputation for a group name without a group signals an
\* error and leaves every persisted table unchanged.
C14_NotFoundRaised ==
    [][RecomputedUnknownGroup =>
          /\ alert' # NoAlert
          /\ standings' = standings]_vars

\* C15 as stated: a fixture's status moves only from pending to completed, with
\* both scores set in that step, and a completed fixture never changes again.
C15_CompletedIsFinal ==
    [][\A m \in 1..Len(matches) :
          /\ matches[m].status = "completed" => matches'[m] = matches[m]
          /\ matches'[m].status # matches[m].status =>
                /\ matches[m].status = "pending"
                /\ matches'[m].status = "completed"
                /\ matches'[m].homeSets # Null
                /\ matches'[m].awaySets # Null]_vars

\* C16 as stated: every completed fixture has both scores set and a winner.
C16_NoDraw ==
    \A m \in 1..Len(matches) :
        matches[m].status = "completed" =>
            /\ matches[m].homeSets # Null
            /\ matches[m].awaySets # Null
            /\ matches[m].homeSets # matches[m].awaySets

\* C17 as stated: the persisted configuration has numGroups >= 1,
\* numAdvancing >= 1, a known matchFormat and 1, 3, 5 or 7 sets.
C17_ConfigValid ==
    /\ config.numGroups >= 1
    /\ config.numAdvancing >= 1
    /\ config.matchFormat \in {"single", "home_and_away"}
    /\ config.sets \in {1, 3, 5, 7}

\* the persisted table of a group is what its completed fixtures amount to
TableReflectsFixtures(group) ==
    \A pid \in Members(group) :
        LET table == TableOf(standings, group.name)
        IN  /\ FindRow(table, pid) # 0
            /\ table[FindRow(table, pid)] = ExpectedRow(matches, group.name, pid)

\* C18 as stated: once no save is waiting, the table of every group reflects the
\* group's completed fixtures, also when the saves of two groups overlapped.
C18_NoLostUpdate ==
    inflight = <<>> => \A g \in 1..Len(groups) : TableReflectsFixtures(groups[g])

\* C19 as stated: once the groups are generated no step changes them, and the
\* standings change only by the recomputation of a saved score.
C19_MembershipFixed ==
    [][groups # <<>> =>
          /\ groups' = groups
          /\ standings' # standings => Resumed]_vars

\* the fixtures of a group name from home to away
FromTo(ms, groupName, home, away) ==
    {k \in 1..Len(ms) : /\ ms[k].groupName = groupName
                        /\ ms[k].homeParticipantId = home
                        /\ ms[k].awayParticipantId = away}

\* at most one fixture per ordered pair of members, and under "single" at most
\* one per unordered pair
NoDuplicate(ms, group, matchFormat) ==
    \A a, b \in Members(group) :
        /\ Cardinality(FromTo(ms, group.name, a, b)) <= 1
        /\ matchFormat = "single" =>
              Cardinality(FromTo(ms, group.name, a, b) \cup FromTo(ms, group.name, b, a)) <= 1

\* C20: the fixtures of the groups are written only in a state where the groups
\* are generated and no fixture exists, and in every state each group holds at
\* most one fixture per unordered pair of members under "single" and at most
\* one per ordered pair under "home_and_away".
C20_NoDuplicateSchedule ==
    /\ [](\A g \in 1..Len(groups) : NoDuplicate(matches, groups[g], config.matchFormat))
    /\ [][(alert' = MatchesAlert /\ matches' # matches) =>
             (config.generated /\ matches = <<>>)]_vars

\* both legs of a pair are generated, and an ad-hoc fixture of the same pair
\* then created
C20_Witness ==
    /\ config.matchFormat = "home_and_away"
    /\ Len(matches) >= 3
    /\ \E i, k, m \in 1..Len(matches) :
          /\ matches[i].groupName = groups[1].name
          /\ matches[k].groupName = groups[1].name
          /\ matches[k].homeParticipantId = matches[i].awayParticipantId
          /\ matches[k].awayParticipantId = matches[i].homeParticipantId
          /\ matches[m].groupName = "Avulso"
          /\ matches[m].homeParticipantId = matches[i].homeParticipantId
          /\ matches[m].awayParticipantId = matches[i].awayParticipantId

\* C21: the standings are written only by the step in which a waiting save
\* resumes, after its updateMatch; at that step the persisted fixture is already
\* completed, and the fixtures the recomputation folds hold it as completed with
\* the scores of the save, so that the rows of its two participants in the
\* written table count at least one match.
C21_RecomputeAfterWrite ==
    [][/\ standings' # standings => Resumed
       /\ Recomputed =>
             LET closure == Head(inflight)
                 new == TableOf(standings', SavedMatch.groupName)
             IN  /\ matches[closure.editingMatch].status = "completed"
                 /\ SavedMatch.status = "completed"
                 /\ SavedMatch.homeSets = closure.data.homeSets
                 /\ SavedMatch.awaySets = closure.data.awaySets
                 /\ \A pid \in {SavedMatch.homeParticipantId, SavedMatch.awayParticipantId} :
                       /\ FindRow(new, pid) # 0
                       /\ new[FindRow(new, pid)].played >= 1]_vars

\* the second group's match was saved 0-1 and its table written, the first
\* group's match is still pending
C21_Witness ==
    /\ inflight = <<>>
    /\ matches[1].status = "pending"
    /\ matches[2].groupName = groups[2].name /\ Scored(matches[2], 0, 1)
    /\ LET t == TableOf(standings, groups[2].name)
       IN  /\ Len(t) = 2
           /\ t[1].participantId = matches[2].awayParticipantId
           /\ t[1].wins = 1
           /\ t[2].losses = 1

\* the fixtures emitted per pair under a format
LegsOf(matchFormat) == IF matchFormat = "home_and_away" THEN 2 ELSE 1

\* the positions of the first fixture of each pair in a generated schedule
FirstLegs(ms, matchFormat) ==
    {k \in 1..Len(ms) : (k - 1) % LegsOf(matchFormat) = 0}

\* the place of a fixture's home and away side in the participantIds of its group
HomePlace(m) == Place(groups[FindGroup(groups, m.groupName)].participantIds, m.homeParticipantId)

AwayPlace(m) == Place(groups[FindGroup(groups, m.groupName)].participantIds, m.awayParticipantId)

\* fixture m comes before fixture n in the order of the loops: groups in their
\* order, then pairs (i, j) with i < j by i, then by j
LoopOrder(m, n) ==
    \/ FindGroup(groups, m.groupName) < FindGroup(groups, n.groupName)
    \/ /\ m.groupName = n.groupName
       /\ \/ HomePlace(m) < HomePlace(n)
          \/ HomePlace(m) = HomePlace(n) /\ AwayPlace(m) < AwayPlace(n)

\* C22: every fixture handleGenerateMatches emits is pending with both scores
\* unset; the first fixture of each pair i < j of a group has home = p_i and
\* away = p_j, the pairs follow the order of the groups and of the loops, and
\* under "home_and_away" the mirrored fixture comes immediately after the first,
\* before the fixture of any other pair.
C22_FixtureOrder ==
    [][MatchesGenerated =>
          LET ms == matches'
              first == FirstLegs(ms, config.matchFormat)
          IN  /\ \A k \in 1..Len(ms) :
                    /\ ms[k].status = "pending"
                    /\ ms[k].homeSets = Null
                    /\ ms[k].awaySets = Null
                    /\ FindGroup(groups, ms[k].groupName) # 0
              /\ \A k \in first :
                    /\ 0 < HomePlace(ms[k])
                    /\ HomePlace(ms[k]) < AwayPlace(ms[k])
                    /\ config.matchFormat = "home_and_away" =>
                          /\ k + 1 <= Len(ms)
                          /\ ms[k + 1].groupName = ms[k].groupName
                          /\ ms[k + 1].homeParticipantId = ms[k].awayParticipantId
                          /\ ms[k + 1].awayParticipantId = ms[k].homeParticipantId
              /\ \A k, l \in first : k < l => LoopOrder(ms[k], ms[l])]_vars

\* one group of three under "home_and_away": six fixtures, each pair followed
\* by its mirror
C22_Witness ==
    /\ alert = MatchesAlert
    /\ config.matchFormat = "home_and_away"
    /\ Len(groups) = 1
    /\ groups[1].participantIds = <<3, 1, 2>>
    /\ Len(matches) = 6
    /\ matches[3].homeParticipantId = 3 /\ matches[3].awayParticipantId = 2
    /\ matches[4].homeParticipantId = 2 /\ matches[4].awayParticipantId = 3

\* the row of pid gains a lost match with sets for and against between two tables
LossCredited(old, new, pid, sets) ==
    FindRow(old, pid) # 0 =>
        /\ FindRow(new, pid) # 0
        /\ LET r == old[FindRow(old, pid)]
               q == new[FindRow(new, pid)]
           IN  /\ q.played = r.played + 1
               /\ q.losses = r.losses + 1
               /\ q.points = r.points + 1
               /\ q.wins = r.wins
               /\ q.setsFor = r.setsFor + sets
               /\ q.setsAgainst = r.setsAgainst + sets

\* C23: a completed fixture with homeSets = awaySets is a loss for both sides:
\* the home row and the away row each gain 1 in played, 1 in losses and 1 point,
\* no win, and the same number in setsFor and in setsAgainst.
C23_TieIsLossForBoth ==
    [][(Recomputed /\ SavedMatch.homeSets = SavedMatch.awaySets) =>
          LET m == SavedMatch
              old == TableOf(standings, m.groupName)
              new == TableOf(standings', m.groupName)
          IN  /\ LossCredited(old, new, m.homeParticipantId, m.homeSets)
              /\ LossCredited(old, new, m.awayParticipantId, m.homeSets)]_vars

\* a single match was saved 2-2: two rows with a loss and a point each
C23_Witness ==
    /\ inflight = <<>>
    /\ standings # <<>>
    /\ \E m \in 1..Len(matches) :
          /\ Scored(matches[m], 2, 2)
          /\ \A k \in 1..Len(matches) : k # m => matches[k].status = "pending"
          /\ \A pid \in {matches[m].homeParticipantId, matches[m].awayParticipantId} :
                LET t == standings[1].table
                IN  /\ FindRow(t, pid) # 0
                    /\ t[FindRow(t, pid)].losses = 1
                    /\ t[FindRow(t, pid)].wins = 0
                    /\ t[FindRow(t, pid)].points = 1
                    /\ t[FindRow(t, pid)].setsFor = 2
                    /\ t[FindRow(t, pid)].setsAgainst = 2

\* C25: every row of every persisted table has played = wins + losses and
\* points = 2 * wins + losses.
C25_PlayedAndPoints ==
    \A e \in 1..Len(standings) :
        \A i \in 1..Len(standings[e].table) :
            LET r == standings[e].table[i]
            IN  /\ r.played = r.wins + r.losses
                /\ r.points = 2 * r.wins + r.losses

\* a row with two wins, a row with two losses and a row with one of each
C25_Witness ==
    /\ standings # <<>>
    /\ Len(standings[1].table) = 3
    /\ LET t == standings[1].table
       IN  /\ t[1].wins = 2 /\ t[1].losses = 0 /\ t[1].points = 4
           /\ t[2].wins = 1 /\ t[2].losses = 1 /\ t[2].points = 3
           /\ t[3].wins = 0 /\ t[3].losses = 2 /\ t[3].points = 2

\* the groups are generated, one of them has a pair to schedule, and no fixture of
\* a group exists: handleGenerateMatches has not run
ScheduleMissing ==
    /\ config.generated
    /\ \E g \in 1..Len(groups) : Len(groups[g].participantIds) >= 2
    /\ \A k \in 1..Len(matches) : matches[k].groupName = "Avulso"

\* C24 as stated: while the groups are generated and their fixtures are not,
\* "Gerar Partidas dos Grupos" is enabled, whatever ad-hoc fixtures exist.
C24_ScheduleStaysPossible ==
    ScheduleMissing => ENABLED HandleGenerateMatches

\* the sum of a counter over the first k rows of a table
RECURSIVE Total(_, _, _)
Total(table, k, counter) ==
    IF k = 0 THEN 0 ELSE Total(table, k - 1, counter) + table[k][counter]

\* the number of completed fixtures with a group name
CompletedOf(ms, groupName) ==
    Cardinality({k \in 1..Len(ms) : Counts(ms[k], groupName)})

\* C26 as stated: in a table written by handleRecalculateStandings the played
\* counters sum to twice the number of completed fixtures of the group, setsFor
\* and setsAgainst have the same sum, the setDifference values sum to 0, and the
\* wins sum to at most the number of completed fixtures.
C26_Conservation ==
    [][Recomputed =>
          LET name == SavedMatch.groupName
              new == TableOf(standings', name)
              completed == CompletedOf(UpdatedMatches(Head(inflight)), name)
          IN  /\ Total(new, Len(new), "played") = 2 * completed
              /\ Total(new, Len(new), "setsFor") = Total(new, Len(new), "setsAgainst")
              /\ Total(new, Len(new), "setDifference") = 0
              /\ Total(new, Len(new), "wins") <= completed]_vars

====
